---------------------------- MODULE Spec2Model ----------------------------
(***************************************************************************)
(* A model of the AI jigsaw puzzle generator: the slicing function         *)
(* createJigsawPieces (topology, pixel partition, per-piece canvases),     *)
(* the PuzzleBoard component that runs it from an effect, and the App      *)
(* state machine around the image-generation call.                         *)
(*                                                                         *)
(* Three specifications share the variables:                               *)
(*   SliceSpec  one direct call of createJigsawPieces, any inputs          *)
(*   Spec       a mounted PuzzleBoard whose parent may change its props    *)
(*   AppSpec    the whole App driven through its user interface            *)
(***************************************************************************)
EXTENDS Integers, Sequences, FiniteSets

\* ------------------------------------------------------------- bounds
\* Largest piece count given to createJigsawPieces / offered by the menu.
MaxPieceCount == 9
\* Smallest and largest image width and height of the direct-call
\* specification.
MinDim == 4
MaxDim == 6
\* Most slicing operations one mounted PuzzleBoard starts.
MaxOps == 2

\* ---------------------------------------------------------- constants
NULL == "null"

KNOB == "KNOB"
SOCKET == "SOCKET"
FLAT == "FLAT"
JigsawSide == {KNOB, SOCKET}

InvalidGridSize == "Piece count must be a perfect square."
ImageLoadFailure == "Failed to load image for puzzle generation."
CanvasFailure == "Could not get canvas context."

\* The menu of PuzzleBoard and PuzzleGeneratorForm, cut at MaxPieceCount.
pieceOptions == {n \in {4, 9, 16, 25, 36, 49, 64, 81} : n <= MaxPieceCount}

\* An image is what its bytes decode to: its pixel size, or a decode failure.
Image(w, h) == [width |-> w, height |-> h, decodes |-> TRUE]
BrokenImage == [width |-> 0, height |-> 0, decodes |-> FALSE]

\* ------------------------------------------------- createJigsawPieces
\* Number.isInteger(Math.sqrt(pieceCount))
IsPerfectSquare(n) == \E g \in 0..n : g * g = n
\* Math.sqrt(pieceCount), when it is an integer
Sqrt(n) == CHOOSE g \in 0..n : g * g = n

\* Array.from({length: rows}, () => Array.from({length: cols}, random)):
\* every outcome of the Math.random() > 0.5 draws.
RandomJoints(rows, cols) == [0..(rows - 1) -> [0..(cols - 1) -> JigsawSide]]

\* joint === KNOB ? SOCKET : KNOB
Inverse(joint) == IF joint = KNOB THEN SOCKET ELSE KNOB

\* PieceShape with the left side copied from the joint, not inverted.
PieceShapeLeftCopied(y, x, gridSize, horizontalJoints, verticalJoints) ==
  [top    |-> IF y = 0 THEN FLAT ELSE Inverse(verticalJoints[y - 1][x]),
   right  |-> IF x = gridSize - 1 THEN FLAT ELSE horizontalJoints[y][x],
   bottom |-> IF y = gridSize - 1 THEN FLAT ELSE verticalJoints[y][x],
   left   |-> IF x = 0 THEN FLAT ELSE horizontalJoints[y][x - 1]]

\* PieceShape with the right side tested against the wrong column, so that
\* the last but one column is given the FLAT side.
PieceShapeFlatOffByOne(y, x, gridSize, horizontalJoints, verticalJoints) ==
  [top    |-> IF y = 0 THEN FLAT ELSE Inverse(verticalJoints[y - 1][x]),
   right  |-> IF x >= gridSize - 2 THEN FLAT ELSE horizontalJoints[y][x],
   bottom |-> IF y = gridSize - 1 THEN FLAT ELSE verticalJoints[y][x],
   left   |-> IF x = 0 THEN FLAT ELSE Inverse(horizontalJoints[y][x - 1])]

\* The shape literal built for the piece of row y, column x.
PieceShape(y, x, gridSize, horizontalJoints, verticalJoints) ==
  [top    |-> IF y = 0 THEN FLAT ELSE Inverse(verticalJoints[y - 1][x]),
   right  |-> IF x = gridSize - 1 THEN FLAT ELSE horizontalJoints[y][x],
   bottom |-> IF y = gridSize - 1 THEN FLAT ELSE verticalJoints[y][x],
   left   |-> IF x = 0 THEN FLAT ELSE Inverse(horizontalJoints[y][x - 1])]

\* PieceSize without the remainder's extra pixel.
PieceSizeNoRemainder(k, size, gridSize) == size \div gridSize

\* PieceSize with the extra pixel given to the last columns, not the first.
PieceSizeExtraLast(k, size, gridSize) ==
  (size \div gridSize) + (IF k >= gridSize - (size % gridSize) THEN 1 ELSE 0)

\* basePiece + (k < remainder ? 1 : 0), for a dimension `size` of the image
PieceSize(k, size, gridSize) ==
  (size \div gridSize) + (IF k < size % gridSize THEN 1 ELSE 0)

\* What canvas.toDataURL returns is decided by what was drawn: the region of
\* the source image and the clip path of the shape.
createPieceCanvas(sourceImage, sourceX, sourceY, pieceWidth, pieceHeight, shape) ==
  [image |-> sourceImage, sourceX |-> sourceX, sourceY |-> sourceY,
   pieceWidth |-> pieceWidth, pieceHeight |-> pieceHeight, shape |-> shape]

\* The inner loop, from column x on.  env holds the loop's constants; acc the
\* pieces pushed so far, currentSourceX, the number of createPieceCanvas calls
\* made, and whether one of them threw (the handler then returns).
\* env.failAt is the 0-based call whose getContext('2d') yields null.
RECURSIVE ColumnLoop(_, _, _, _, _)
ColumnLoop(env, y, currentSourceY, x, acc) ==
  IF x >= env.gridSize \/ acc.threw THEN acc
  ELSE LET pieceH == PieceSize(y, env.img.height, env.gridSize)
           pieceW == PieceSize(x, env.img.width, env.gridSize)
           shape  == PieceShape(y, x, env.gridSize,
                                env.horizontalJoints, env.verticalJoints)
       IN IF acc.canvases = env.failAt
          THEN [acc EXCEPT !.canvases = @ + 1, !.threw = TRUE]
          ELSE ColumnLoop(env, y, currentSourceY, x + 1,
                 [acc EXCEPT
                    !.pieces = Append(@, createPieceCanvas(env.img,
                                 acc.currentSourceX, currentSourceY,
                                 pieceW, pieceH, shape)),
                    !.canvases = @ + 1,
                    !.currentSourceX = @ + pieceW])

\* The outer loop, from row y on.
RECURSIVE RowLoop(_, _, _, _)
RowLoop(env, y, currentSourceY, acc) ==
  IF y >= env.gridSize \/ acc.threw THEN acc
  ELSE LET row == ColumnLoop(env, y, currentSourceY, 0,
                             [acc EXCEPT !.currentSourceX = 0])
       IN RowLoop(env, y + 1,
                  currentSourceY + PieceSize(y, env.img.height, env.gridSize),
                  row)

\* A promise of createJigsawPieces: its state, its value or reason, and
\* (history) how many createPieceCanvas calls its handler made.
Pending ==
  [state |-> "pending", value |-> <<>>, reason |-> NULL, canvases |-> 0]
Fulfilled(value, canvases) ==
  [state |-> "fulfilled", value |-> value, reason |-> NULL, canvases |-> canvases]
Rejected(reason, canvases) ==
  [state |-> "rejected", value |-> <<>>, reason |-> reason, canvases |-> canvases]

\* SettleLoops with the canvas error swallowed: the pieces made so far are
\* resolved.
SettleLoopsPartial(acc) == Fulfilled(acc.pieces, acc.canvases)

\* What the try/catch around createPieceCanvas and the final resolve make of
\* the loops' outcome.
SettleLoops(acc) ==
  IF acc.threw THEN Rejected(CanvasFailure, acc.canvases)
  ELSE Fulfilled(acc.pieces, acc.canvases)

\* img.onload of createJigsawPieces: how the promise settles.
OnloadOutcome(img, pieceCount, horizontalJoints, verticalJoints, failAt) ==
  IF ~IsPerfectSquare(pieceCount) THEN Rejected(InvalidGridSize, 0)
  ELSE LET env == [img |-> img, gridSize |-> Sqrt(pieceCount),
                   horizontalJoints |-> horizontalJoints,
                   verticalJoints |-> verticalJoints, failAt |-> failAt]
       IN SettleLoops(RowLoop(env, 0, 0,
            [pieces |-> <<>>, currentSourceX |-> 0, canvases |-> 0,
             threw |-> FALSE]))

\* img.onerror of createJigsawPieces.
OnerrorOutcome == Rejected(ImageLoadFailure, 0)

\* The inputs of one onload that the handler does not control: the random
\* joints (none are drawn when the validation rejects) and the canvas call
\* that fails, pieceCount meaning none.
JointsFor(pieceCount) ==
  IF IsPerfectSquare(pieceCount)
  THEN [h : RandomJoints(Sqrt(pieceCount), Sqrt(pieceCount) - 1),
        v : RandomJoints(Sqrt(pieceCount) - 1, Sqrt(pieceCount))]
  ELSE {[h |-> <<>>, v |-> <<>>]}
CanvasFailures(pieceCount) == 0..pieceCount

VARIABLES
  call,               \* SliceSpec: the promise of one direct call
  gameState,          \* App
  error,              \* App
  puzzleData,         \* App; its fields are PuzzleBoard's props
  request,            \* App: the generateImage call of handleGenerate
  mounted,            \* whether a PuzzleBoard is mounted
  currentPieceCount,  \* PuzzleBoard
  pieces,             \* PuzzleBoard
  isSlicing,          \* PuzzleBoard
  ops,                \* the promises the mounted board's effect has created
  piecesFrom          \* history: the op whose value setPieces last took (0: none)

appVars == <<gameState, error, puzzleData, request>>
boardVars == <<mounted, currentPieceCount, pieces, isSlicing, ops, piecesFrom>>
vars == <<call, gameState, error, puzzleData, request, mounted,
          currentPieceCount, pieces, isSlicing, ops, piecesFrom>>

NoRequest == [pieceCount |-> 0, state |-> "none", reason |-> NULL]
NoCall == [imageBase64 |-> BrokenImage, pieceCount |-> 0, promise |-> Pending]

\* ------------------------------------------------------------ SliceSpec
SliceImages ==
  {Image(w, h) : w \in MinDim..MaxDim, h \in MinDim..MaxDim}
    \cup {Image(802, 802), BrokenImage}

\* createJigsawPieces(imageBase64, pieceCount) has returned its promise and
\* set img.src; nothing else of the program runs.
SliceInit ==
  /\ call \in [imageBase64 : SliceImages, pieceCount : 0..MaxPieceCount,
               promise : {Pending}]
  /\ gameState = "setup" /\ error = NULL /\ puzzleData = NULL
  /\ request = NoRequest
  /\ mounted = FALSE /\ currentPieceCount = 0 /\ pieces = <<>>
  /\ isSlicing = FALSE /\ ops = <<>> /\ piecesFrom = 0

CallOnload ==
  /\ call.promise.state = "pending"
  /\ call.imageBase64.decodes
  /\ \E j \in JointsFor(call.pieceCount),
        failAt \in CanvasFailures(call.pieceCount) :
       call' = [call EXCEPT !.promise =
                  OnloadOutcome(call.imageBase64, call.pieceCount,
                                j.h, j.v, failAt)]
  /\ UNCHANGED <<appVars, boardVars>>

CallOnerror ==
  /\ call.promise.state = "pending"
  /\ ~call.imageBase64.decodes
  /\ call' = [call EXCEPT !.promise = OnerrorOutcome]
  /\ UNCHANGED <<appVars, boardVars>>

SliceNext == CallOnload \/ CallOnerror
SliceSpec == SliceInit /\ [][SliceNext]_vars

\* ---------------------------------------------------------- PuzzleBoard
\* The images a board is given: two that decode, one that does not.
BoardImages == {Image(MaxDim, MinDim), Image(MinDim, MaxDim), BrokenImage}

\* The outcomes of the random draws a board's operations are checked with:
\* each joint grid all KNOB or all SOCKET (SliceSpec draws every outcome).
BoardJoints(pieceCount) ==
  IF IsPerfectSquare(pieceCount)
  THEN {[h |-> [y \in 0..(Sqrt(pieceCount) - 1) |->
                 [x \in 0..(Sqrt(pieceCount) - 2) |-> a]],
         v |-> [y \in 0..(Sqrt(pieceCount) - 2) |->
                 [x \in 0..(Sqrt(pieceCount) - 1) |-> b]]] :
          a \in JigsawSide, b \in JigsawSide}
  ELSE {[h |-> <<>>, v |-> <<>>]}

\* The promise the effect has just created, with (history) the number of
\* images it resolved with and the earlier operations still pending when
\* it was created.
NewOp(img, pieceCount) ==
  [imageBase64 |-> img, pieceCount |-> pieceCount, promise |-> Pending,
   produced |-> 0,
   startedDuring |-> {i \in 1..Len(ops) : ops[i].promise.state = "pending"}]

\* The effect of PuzzleBoard, run after the first render and after every
\* render that changed imageBase64 or currentPieceCount.
RunEffect(img, pieceCount) ==
  /\ isSlicing' = TRUE
  /\ ops' = Append(ops, NewOp(img, pieceCount))

\* InitialPieces numbering the pieces from 1.
InitialPiecesFromOne(slicedImages) ==
  [i \in 1..Len(slicedImages) |->
     [id |-> i, originalIndex |-> i, imageUrl |-> slicedImages[i]]]

\* slicedImages.map((imageUrl, index) => ({id, originalIndex, imageUrl}))
InitialPieces(slicedImages) ==
  [i \in 1..Len(slicedImages) |->
     [id |-> i - 1, originalIndex |-> i - 1, imageUrl |-> slicedImages[i]]]

\* The .then callback: what it makes of the piece state.
ThenPieces(out) ==
  IF out.state = "fulfilled" THEN InitialPieces(out.value) ELSE pieces

\* FinallyIsSlicing when the callback is missing: isSlicing stays as it is.
FinallyIsSlicingKept(k) == isSlicing

\* The .finally callback: what it makes of isSlicing.
FinallyIsSlicing(k) == FALSE

\* The promise of op k settles as `out`; .then, .catch and .finally run in
\* the same microtask checkpoint.  The settled value is kept by nobody but
\* the piece state, so the op keeps only how many images it held (produced).
Settle(k, out) ==
  /\ ops' = [ops EXCEPT ![k].promise = [out EXCEPT !.value = <<>>],
                         ![k].produced = Len(out.value)]
  /\ pieces' = ThenPieces(out)
  /\ piecesFrom' = IF out.state = "fulfilled" THEN k ELSE piecesFrom
  /\ isSlicing' = FinallyIsSlicing(k)

\* SelectPieceCount with the select left enabled while isSlicing.
SelectPieceCountEnabled(n) ==
  /\ mounted
  /\ n # currentPieceCount
  /\ Len(ops) < MaxOps
  /\ currentPieceCount' = n
  /\ RunEffect(puzzleData.imageBase64, n)
  /\ UNCHANGED <<call, appVars, mounted, pieces, piecesFrom>>

\* The user picks another size in the select, which is disabled while
\* isSlicing; the render that follows runs the effect.
SelectPieceCount(n) ==
  /\ mounted /\ ~isSlicing
  /\ n # currentPieceCount
  /\ Len(ops) < MaxOps
  /\ currentPieceCount' = n
  /\ RunEffect(puzzleData.imageBase64, n)
  /\ UNCHANGED <<call, appVars, mounted, pieces, piecesFrom>>

\* The parent renders the board with another imageBase64; the effect runs.
ImagePropChange(img) ==
  /\ mounted
  /\ img # puzzleData.imageBase64
  /\ Len(ops) < MaxOps
  /\ puzzleData' = [puzzleData EXCEPT !.imageBase64 = img]
  /\ RunEffect(img, currentPieceCount)
  /\ UNCHANGED <<call, gameState, error, request, mounted,
                 currentPieceCount, pieces, piecesFrom>>

\* The image of op k has decoded: img.onload, then the promise's callbacks.
ImgOnload(k) ==
  /\ mounted
  /\ ops[k].promise.state = "pending"
  /\ ops[k].imageBase64.decodes
  /\ \E j \in BoardJoints(ops[k].pieceCount),
        failAt \in CanvasFailures(ops[k].pieceCount) :
       Settle(k, OnloadOutcome(ops[k].imageBase64, ops[k].pieceCount,
                               j.h, j.v, failAt))
  /\ UNCHANGED <<call, appVars, mounted, currentPieceCount>>

\* The image of op k failed to decode: img.onerror, then the callbacks.
ImgOnerror(k) ==
  /\ mounted
  /\ ops[k].promise.state = "pending"
  /\ ~ops[k].imageBase64.decodes
  /\ Settle(k, OnerrorOutcome)
  /\ UNCHANGED <<call, appVars, mounted, currentPieceCount>>

\* The state of a PuzzleBoard rendered for the first time with these props,
\* its effect run: useState's initial values, and the first operation.
FreshBoard(img, pieceCount) ==
  [mounted |-> TRUE, currentPieceCount |-> pieceCount, pieces |-> <<>>,
   isSlicing |-> TRUE,
   ops |-> <<[imageBase64 |-> img, pieceCount |-> pieceCount,
              promise |-> Pending, produced |-> 0, startedDuring |-> {}]>>,
   piecesFrom |-> 0]

Init ==
  /\ call = NoCall
  /\ gameState = "playing" /\ error = NULL /\ request = NoRequest
  /\ \E img \in BoardImages, pieceCount \in 1..MaxPieceCount :
       /\ puzzleData = [imageBase64 |-> img, pieceCount |-> pieceCount]
       /\ mounted = FreshBoard(img, pieceCount).mounted
       /\ currentPieceCount = FreshBoard(img, pieceCount).currentPieceCount
       /\ pieces = FreshBoard(img, pieceCount).pieces
       /\ isSlicing = FreshBoard(img, pieceCount).isSlicing
       /\ ops = FreshBoard(img, pieceCount).ops
       /\ piecesFrom = FreshBoard(img, pieceCount).piecesFrom

Next ==
  \/ \E n \in pieceOptions : SelectPieceCount(n)
  \/ \E img \in BoardImages : ImagePropChange(img)
  \/ \E k \in 1..Len(ops) : ImgOnload(k)
  \/ \E k \in 1..Len(ops) : ImgOnerror(k)

Spec == Init /\ [][Next]_vars

\* The board when every image decode that was started ends, in onload or in
\* onerror: a pending operation's handler stays enabled until it runs.
LiveSpec ==
  /\ Init /\ [][Next]_vars
  /\ \A k \in 1..MaxOps :
       /\ WF_vars(k <= Len(ops) /\ ImgOnload(k))
       /\ WF_vars(k <= Len(ops) /\ ImgOnerror(k))

\* ------------------------------------------------------------------ App
\* What ai.models.generateImages does: it returns an image, returns none,
\* throws an Error, or throws something else.
ApiResponses ==
  {[kind |-> "images", imageBytes |-> img, message |-> NULL] : img \in BoardImages}
    \cup {[kind |-> k, imageBytes |-> BrokenImage, message |-> m] :
            k \in {"noImages"}, m \in {NULL}}
    \cup {[kind |-> "error", imageBytes |-> BrokenImage, message |-> "upstream error"],
          [kind |-> "thrown", imageBytes |-> BrokenImage, message |-> NULL]}

NoImagesMessage == "Image generation failed, no images were returned by the API."

\* generateImage: how its promise settles for a response of the API.
generateImage(response) ==
  CASE response.kind = "images" ->
         [state |-> "fulfilled", value |-> response.imageBytes, reason |-> NULL]
    [] response.kind = "noImages" ->
         [state |-> "rejected", value |-> NULL,
          reason |-> "Failed to generate image: " \o NoImagesMessage]
    [] response.kind = "error" ->
         [state |-> "rejected", value |-> NULL,
          reason |-> "Failed to generate image: " \o response.message]
    [] OTHER ->
         [state |-> "rejected", value |-> NULL,
          reason |-> "An unknown error occurred during image generation."]

\* handleGenerateCatch going back to the form without a message.
handleGenerateCatchSilent(errorMessage) ==
  [gameState |-> "setup", error |-> NULL]

\* The catch block of handleGenerate, given the message of the error caught.
handleGenerateCatch(errorMessage) ==
  [gameState |-> "error", error |-> errorMessage]

\* The form is submitted (it is shown, and enabled, in the setup state):
\* handleGenerate up to its await.
HandleSubmit(pieceCount) ==
  /\ gameState = "setup"
  /\ gameState' = "generating"
  /\ error' = NULL
  /\ puzzleData' = NULL
  /\ request' = [pieceCount |-> pieceCount, state |-> "pending", reason |-> NULL]
  /\ UNCHANGED <<call, boardVars>>

\* generateImage returns: the rest of the try block, and the render that
\* mounts the PuzzleBoard and runs its effect.
GenerateImageReturns(response) ==
  /\ gameState = "generating" /\ request.state = "pending"
  /\ generateImage(response).state = "fulfilled"
  /\ request' = [request EXCEPT !.state = "fulfilled"]
  /\ puzzleData' = [imageBase64 |-> generateImage(response).value,
                    pieceCount |-> request.pieceCount]
  /\ gameState' = "playing"
  /\ LET board == FreshBoard(generateImage(response).value, request.pieceCount)
     IN /\ mounted' = board.mounted
        /\ currentPieceCount' = board.currentPieceCount
        /\ pieces' = board.pieces
        /\ isSlicing' = board.isSlicing
        /\ ops' = board.ops
        /\ piecesFrom' = board.piecesFrom
  /\ UNCHANGED <<call, error>>

\* generateImage throws: the catch block.
GenerateImageThrows(response) ==
  /\ gameState = "generating" /\ request.state = "pending"
  /\ generateImage(response).state = "rejected"
  /\ request' = [request EXCEPT !.state = "rejected",
                                !.reason = generateImage(response).reason]
  /\ error' = handleGenerateCatch(generateImage(response).reason).error
  /\ gameState' = handleGenerateCatch(generateImage(response).reason).gameState
  /\ UNCHANGED <<call, puzzleData, boardVars>>

\* handleReset, from Try Again of the error view or from Start Over of the
\* board (disabled while isSlicing); a mounted board is unmounted.
HandleReset ==
  /\ \/ gameState = "error"
     \/ gameState = "playing" /\ mounted /\ ~isSlicing
  /\ gameState' = "setup"
  /\ puzzleData' = NULL
  /\ error' = NULL
  /\ mounted' = FALSE /\ currentPieceCount' = 0 /\ pieces' = <<>>
  /\ isSlicing' = FALSE /\ ops' = <<>> /\ piecesFrom' = 0
  /\ UNCHANGED <<call, request>>

AppInit ==
  /\ call = NoCall
  /\ gameState = "setup" /\ error = NULL /\ puzzleData = NULL
  /\ request = NoRequest
  /\ mounted = FALSE /\ currentPieceCount = 0 /\ pieces = <<>>
  /\ isSlicing = FALSE /\ ops = <<>> /\ piecesFrom = 0

AppNext ==
  \/ \E n \in pieceOptions : HandleSubmit(n)
  \/ \E r \in ApiResponses : GenerateImageReturns(r)
  \/ \E r \in ApiResponses : GenerateImageThrows(r)
  \/ HandleReset
  \/ \E n \in pieceOptions : SelectPieceCount(n)
  \/ \E k \in 1..Len(ops) : ImgOnload(k)
  \/ \E k \in 1..Len(ops) : ImgOnerror(k)

AppSpec == AppInit /\ [][AppNext]_vars

\* ------------------------------------------- claims about the slicing
\* The call has resolved, for a grid of at least 2 x 2.
Sliced == call.promise.state = "fulfilled" /\ call.pieceCount >= 4
N == Sqrt(call.pieceCount)
\* The data URL the call returned for the cell of row y, column x.
At(y, x) == call.promise.value[y * N + x + 1]
Sides == {"top", "right", "bottom", "left"}

\* C1: every internal edge of the grid is a KNOB on one side and a SOCKET on
\* the other: a cell's right side is the inverse of its right neighbour's
\* left side, its bottom side the inverse of the top side of the cell below.
C1_NeighboursInterlock ==
  Sliced =>
    /\ \A y \in 0..(N - 1), x \in 0..(N - 2) :
         {At(y, x).shape.right, At(y, x + 1).shape.left} = {KNOB, SOCKET}
    /\ \A y \in 0..(N - 2), x \in 0..(N - 1) :
         {At(y, x).shape.bottom, At(y + 1, x).shape.top} = {KNOB, SOCKET}

\* A 3 x 3 result where the centre cell has a KNOB to its right and a SOCKET
\* below it.
C1_Witness ==
  /\ Sliced /\ N = 3
  /\ At(1, 1).shape.right = KNOB /\ At(1, 2).shape.left = SOCKET
  /\ At(1, 1).shape.bottom = SOCKET /\ At(2, 1).shape.top = KNOB

RECURSIVE SumTo(_, _)
SumTo(f, k) == IF k < 0 THEN 0 ELSE f[k] + SumTo(f, k - 1)

\* C2: in every row the piece widths add up to the image width, in every
\* column the piece heights add up to the image height.
C2_PartitionExact ==
  Sliced =>
    /\ \A y \in 0..(N - 1) :
         SumTo([x \in 0..(N - 1) |-> At(y, x).pieceWidth], N - 1)
           = call.imageBase64.width
    /\ \A x \in 0..(N - 1) :
         SumTo([y \in 0..(N - 1) |-> At(y, x).pieceHeight], N - 1)
           = call.imageBase64.height

\* A 3 x 3 result of an image whose width and height leave different
\* remainders, neither 0.
C2_Witness ==
  /\ Sliced /\ N = 3
  /\ call.imageBase64.width % 3 = 1 /\ call.imageBase64.height % 3 = 2

\* Whether the side faces the border of the puzzle.
FacesBorder(y, x, side) ==
  \/ side = "top" /\ y = 0
  \/ side = "bottom" /\ y = N - 1
  \/ side = "left" /\ x = 0
  \/ side = "right" /\ x = N - 1

\* C3: a side is FLAT exactly when it faces the border; every other side is
\* a KNOB or a SOCKET.
C3_FlatIffBorder ==
  Sliced =>
    \A y \in 0..(N - 1), x \in 0..(N - 1), side \in Sides :
      /\ At(y, x).shape[side] \in {KNOB, SOCKET, FLAT}
      /\ At(y, x).shape[side] = FLAT <=> FacesBorder(y, x, side)

\* A 3 x 3 result: its centre cell has no FLAT side, its corner cell two.
C3_Witness ==
  /\ Sliced /\ N = 3
  /\ \A side \in Sides : At(1, 1).shape[side] # FLAT
  /\ At(0, 0).shape.top = FLAT /\ At(0, 0).shape.left = FLAT
  /\ At(0, 0).shape.right # FLAT /\ At(0, 0).shape.bottom # FLAT

\* C4: a call with a piece count that is no perfect square fails with the
\* invalid-grid-size error, having made no canvas and produced no piece,
\* whatever the image decode does.
C4_InvalidGridSizeAlways ==
  (call.promise.state # "pending" /\ ~IsPerfectSquare(call.pieceCount)) =>
    /\ call.promise.state = "rejected"
    /\ call.promise.reason = InvalidGridSize
    /\ call.promise.canvases = 0
    /\ call.promise.value = <<>>

\* C11: column x is floor(W / N) wide, one more when x < W mod N, and row y
\* floor(H / N) high, one more when y < H mod N; a piece's source origin is
\* the sum of the widths of the columns before it and of the heights of the
\* rows before it.
C11_PartitionFormula ==
  Sliced =>
    \A y \in 0..(N - 1), x \in 0..(N - 1) :
      /\ At(y, x).pieceWidth
           = (call.imageBase64.width \div N)
             + (IF x < call.imageBase64.width % N THEN 1 ELSE 0)
      /\ At(y, x).pieceHeight
           = (call.imageBase64.height \div N)
             + (IF y < call.imageBase64.height % N THEN 1 ELSE 0)
      /\ At(y, x).sourceX
           = SumTo([k \in 0..(N - 1) |-> At(y, k).pieceWidth], x - 1)
      /\ At(y, x).sourceY
           = SumTo([k \in 0..(N - 1) |-> At(k, x).pieceHeight], y - 1)

\* The 3 x 3 result of an 802 x 802 image: the first row and column are 268
\* pixels, the others 267.
C11_Witness ==
  /\ Sliced /\ N = 3
  /\ call.imageBase64.width = 802 /\ call.imageBase64.height = 802
  /\ At(0, 0).pieceWidth = 268 /\ At(0, 0).pieceHeight = 268
  /\ At(1, 1).pieceWidth = 267 /\ At(2, 2).pieceHeight = 267
  /\ At(1, 1).sourceX = 268 /\ At(2, 2).sourceY = 535

\* ------------------------------------------- claims about the board
Settled(k) == ops[k].promise.state # "pending"

\* C5: an operation resolves with exactly pieceCount = N * N images or
\* rejects with none, and the piece state is empty or holds all the pieces
\* of one resolved operation.
C5_NoPartialBatch ==
  /\ \A k \in 1..Len(ops) :
       /\ ops[k].promise.state = "fulfilled" =>
            /\ IsPerfectSquare(ops[k].pieceCount)
            /\ ops[k].produced = Sqrt(ops[k].pieceCount) * Sqrt(ops[k].pieceCount)
            /\ ops[k].promise.canvases = ops[k].produced
       /\ ops[k].promise.state # "fulfilled" => ops[k].produced = 0
  /\ IF piecesFrom = 0 THEN pieces = <<>>
     ELSE /\ ops[piecesFrom].promise.state = "fulfilled"
          /\ Len(pieces) = ops[piecesFrom].pieceCount

\* An operation that made canvases for some pieces, then failed on one, and
\* left the board without pieces.
C5_Witness ==
  /\ mounted /\ pieces = <<>> /\ ~isSlicing
  /\ \E k \in 1..Len(ops) :
       /\ ops[k].promise.state = "rejected"
       /\ ops[k].promise.reason = CanvasFailure
       /\ ops[k].promise.canvases >= 3

\* C6: when an operation was started while an earlier one was pending and
\* both have settled, the later one resolving, the pieces are the later
\* one's.
C6_LaterResultKept ==
  \A i \in 1..Len(ops), j \in 1..Len(ops) :
    (/\ i \in ops[j].startedDuring /\ j = Len(ops)
     /\ Settled(i) /\ Settled(j)
     /\ ops[j].promise.state = "fulfilled") => piecesFrom = j

\* C7: while the operation started last is pending, isSlicing is true.
C7_IsSlicingTracksLatest ==
  (mounted /\ ~Settled(Len(ops))) => isSlicing

\* C8: once a regeneration has settled, no piece of an earlier batch is
\* still in the piece state.
C8_OldSetDiscarded ==
  (mounted /\ Len(ops) >= 2 /\ \A k \in 1..Len(ops) : Settled(k)) =>
    (pieces = <<>> \/ piecesFrom = Len(ops))

\* The origin of column (or row) c when `size` pixels are split n ways.
Origin(c, size, n) ==
  c * (size \div n) + (IF c < size % n THEN c ELSE size % n)

\* C9: the pieces of a resolved operation are its N * N cells in row-major
\* order: piece i has id and originalIndex i and is the image of the cell of
\* row i div N, column i mod N.
C9_RowMajorOrder ==
  piecesFrom # 0 =>
    LET op == ops[piecesFrom]
        n == Sqrt(op.pieceCount)
    IN /\ Len(pieces) = n * n
       /\ \A i \in 0..(n * n - 1) :
            /\ pieces[i + 1].id = i
            /\ pieces[i + 1].originalIndex = i
            /\ pieces[i + 1].imageUrl.image = op.imageBase64
            /\ pieces[i + 1].imageUrl.sourceX
                 = Origin(i % n, op.imageBase64.width, n)
            /\ pieces[i + 1].imageUrl.sourceY
                 = Origin(i \div n, op.imageBase64.height, n)
            /\ pieces[i + 1].imageUrl.pieceWidth
                 = Origin((i % n) + 1, op.imageBase64.width, n)
                   - Origin(i % n, op.imageBase64.width, n)
            /\ pieces[i + 1].imageUrl.pieceHeight
                 = Origin((i \div n) + 1, op.imageBase64.height, n)
                   - Origin(i \div n, op.imageBase64.height, n)
            /\ \A side \in Sides :
                 pieces[i + 1].imageUrl.shape[side] = FLAT <=>
                   \/ side = "top" /\ i \div n = 0
                   \/ side = "bottom" /\ i \div n = n - 1
                   \/ side = "left" /\ i % n = 0
                   \/ side = "right" /\ i % n = n - 1

\* A 3 x 3 board whose piece 5 is the cell of row 1, column 2.
C9_Witness ==
  /\ piecesFrom # 0 /\ Len(pieces) = 9
  /\ pieces[6].id = 5
  /\ pieces[6].imageUrl.sourceX > pieces[5].imageUrl.sourceX
  /\ pieces[6].imageUrl.sourceY = pieces[5].imageUrl.sourceY
  /\ pieces[6].imageUrl.sourceY > 0
  /\ pieces[6].imageUrl.shape.right = FLAT

\* ---------------------------------------------- claims about the App
\* C10: when generateImage fails, the App enters the error state with the
\* failure's message, puzzleData stays null and no board is mounted, so no
\* slicing operation starts; and it is so in every error state.
C10_GenerationFailureSurfaced ==
  [][/\ (request.state = "pending" /\ request'.state = "rejected") =>
          (gameState' = "error" /\ error' # NULL /\ error' = request'.reason)
     /\ (request'.state = "rejected" \/ gameState' = "error") =>
          (puzzleData' = NULL /\ ~mounted' /\ ops' = <<>>)]_vars

\* The error view after the API returned no image.
C10_Witness ==
  /\ gameState = "error" /\ request.state = "rejected"
  /\ error = "Failed to generate image: " \o NoImagesMessage
  /\ puzzleData = NULL /\ ~mounted

\* The operations of the mounted board that are pending.
PendingOps == {k \in 1..Len(ops) : ~Settled(k)}

\* C12: whenever no slicing operation is pending and isSlicing is false,
\* the board holds currentPieceCount pieces.
C12_PieceCountMatches ==
  (mounted /\ ~isSlicing /\ PendingOps = {}) =>
    Len(pieces) = currentPieceCount

\* C13: every operation of the board that is pending is eventually settled
\* with isSlicing false, so the controls are enabled again.
C13_SlicingEventuallyClears ==
  \A k \in 1..MaxOps :
    (k <= Len(ops) /\ ~Settled(k)) ~> (k <= Len(ops) /\ Settled(k) /\ ~isSlicing)

\* A board whose second operation failed, on the validation or on a canvas,
\* and left isSlicing cleared.
C13_Witness ==
  /\ mounted /\ ~isSlicing /\ PendingOps = {}
  /\ Len(ops) = 2
  /\ ops[2].promise.reason \in {InvalidGridSize, CanvasFailure}

\* C14: in the App at most one operation of the board is pending, and
\* isSlicing is true exactly while one is; without a board there is none.
C14_OnePendingOperation ==
  /\ Cardinality(PendingOps) <= 1
  /\ mounted => (isSlicing <=> PendingOps # {})
  /\ ~mounted => ops = <<>>

\* A piece-count change that started the board's second operation after the
\* first had settled.
C14_Witness ==
  /\ mounted /\ Len(ops) = 2 /\ isSlicing
  /\ Settled(1) /\ ~Settled(2)
  /\ ops[2].pieceCount # ops[1].pieceCount

=============================================================================
